---- MODULE Spec2Model ----
(***************************************************************************)
(* A model of src/regression.py: the least-squares regression classes      *)
(* (Linear, Polynomial, Power, Hyperbolic, Exponential), the conic classes *)
(* (Ellipsis, Circle) and the helper class _Axis.                          *)
(*                                                                         *)
(* One instance is followed from the call of its constructor to the        *)
(* queries made on it.  Real numbers are exact rationals <<n, d>> (d > 0,  *)
(* lowest terms); a square root that is not rational is rounded down to a  *)
(* fixed resolution.  The numerical routines of numpy.linalg (pinv, inv,   *)
(* eig) are not part of the repository: their results are drawn from       *)
(* bounded sets of outcomes (conics, circles) or kept as named             *)
(* coefficients (least squares).                                           *)
(***************************************************************************)
EXTENDS Integers, Sequences, FiniteSets, Bags, TLC

VARIABLES
    kind,       \* the class being instantiated
    args,       \* the constructor's arguments, owned by the caller
    status,     \* "new" | "ready" | "failed"
    error,      \* the exception that ended the constructor ("" if none)
    attrs,      \* names of the attributes assigned on the instance so far
    steps,      \* the methods the constructor ran, in order
    fit_intercept, n, base,          \* self.fit_intercept, self.n, self.base
    x, y,       \* self.x, self.y
    betas,      \* self.betas
    axis_major, axis_minor,          \* self.axis_major, self.axis_minor
    op,         \* the last query made on the instance ("" if none)
    query,      \* that query's arguments: as sent, and as the caller holds them afterwards
    result,     \* what the query returned
    raised      \* the exception the query raised ("" if it returned)

vars == <<kind, args, status, error, attrs, steps, fit_intercept, n, base,
          x, y, betas, axis_major, axis_minor, op, query, result, raised>>

-----------------------------------------------------------------------------
(* Bounds of the model.                                                    *)

MaxRows == 2
MaxCols == 2
MaxVal == 1
MaxOrder == 2
MaxBatch == 2
SqrtScale == 100

-----------------------------------------------------------------------------
(* Exact rational arithmetic: the model of Python / numpy float values.    *)

Abs(i) == IF i < 0 THEN -i ELSE i

RECURSIVE GCD(_, _)
GCD(a, b) == IF b = 0 THEN a ELSE GCD(b, a % b)

\* nan is <<0, 0>>; it propagates through the arithmetic
R(num, den) ==
    LET g == GCD(Abs(num), Abs(den))
        s == IF den < 0 THEN -1 ELSE 1
    IN  IF den = 0 THEN <<0, 0>> ELSE <<(s * num) \div g, (s * den) \div g>>

Q(i) == <<i, 1>>
RNeg(p) == <<-p[1], p[2]>>
RAdd(p, q) ==
    LET g == GCD(p[2], q[2])
    IN  IF p[2] = 0 \/ q[2] = 0 THEN <<0, 0>>
        ELSE R(p[1] * (q[2] \div g) + q[1] * (p[2] \div g), (p[2] \div g) * q[2])
RSub(p, q) == RAdd(p, RNeg(q))
RMul(p, q) ==
    LET g1 == GCD(Abs(p[1]), q[2])
        g2 == GCD(Abs(q[1]), p[2])
    IN  IF p[2] = 0 \/ q[2] = 0 THEN <<0, 0>>
        ELSE R((p[1] \div g1) * (q[1] \div g2), (p[2] \div g2) * (q[2] \div g1))
RDiv(p, q) == RMul(p, IF q[1] < 0 THEN <<-q[2], -q[1]>> ELSE <<q[2], q[1]>>)
RCmp(p, q) ==
    LET g == GCD(p[2], q[2])
    IN  p[1] * (q[2] \div g) - q[1] * (p[2] \div g)
\* a comparison with nan (denominator 0) is false
RLt(p, q) == p[2] # 0 /\ q[2] # 0 /\ RCmp(p, q) < 0
RLe(p, q) == p[2] # 0 /\ q[2] # 0 /\ RCmp(p, q) <= 0
RSq(p) == RMul(p, p)
RMin(p, q) == IF RLt(q, p) THEN q ELSE p
RMax(p, q) == IF RLt(p, q) THEN q ELSE p
RZero == Q(0)

RECURSIVE ISqrtIn(_, _, _)
ISqrtIn(i, lo, hi) ==
    IF lo >= hi THEN lo
    ELSE LET mid == (lo + hi + 1) \div 2
         IN  IF mid * mid <= i THEN ISqrtIn(i, mid, hi)
             ELSE ISqrtIn(i, lo, mid - 1)

\* floor of the square root of a natural number
ISqrt(i) == ISqrtIn(i, 0, IF i < 46340 THEN i ELSE 46340)

IsSquare(i) == ISqrt(i) * ISqrt(i) = i

\* v ** 0.5: nan for v < 0 (numpy), exact on the squares of rationals, and
\* otherwise rounded down to a multiple of 1 / SqrtScale (to an integer for large v)
RSqrt(p) ==
    LET whole == p[1] \div p[2]
        r1 == (p[1] % p[2]) * SqrtScale
        r2 == (r1 % p[2]) * SqrtScale
        scaled == whole * SqrtScale * SqrtScale + (r1 \div p[2]) * SqrtScale + (r2 \div p[2])
    IN  IF p[2] = 0 \/ p[1] < 0 THEN <<0, 0>>
        ELSE IF IsSquare(p[1]) /\ IsSquare(p[2]) THEN <<ISqrt(p[1]), ISqrt(p[2])>>
        ELSE IF whole >= 200000 THEN <<ISqrt(whole), 1>>
        ELSE R(ISqrt(scaled), SqrtScale)

-----------------------------------------------------------------------------
(* Data as the caller passes it.  `form` is how the value is passed:       *)
(* "scalar" (int | float), "flat" (1-D list or array, kept as one row),    *)
(* "table" (2-D list or array), "frame" (pandas.DataFrame), "cube" (an     *)
(* array of more than two dimensions).  `data` is a sequence of rows.      *)

Vals == -1 .. MaxVal

Rows(m) == Len(m)
Cols(m) == Len(m[1])

\* an r x c matrix of positive entries, but for its last entry, which is v
Fill(r, c, v) ==
    [i \in 1 .. r |-> [j \in 1 .. c |-> IF i = r /\ j = c THEN v ELSE i + j]]

Matrices(vs) == {Fill(r, c, v) : r \in 1 .. MaxRows, c \in 1 .. MaxCols, v \in vs}

Data(vs) ==
    {[form |-> "scalar", data |-> <<<<v>>>>] : v \in vs}
    \cup {[form |-> "flat", data |-> Fill(1, r, v)] : r \in 1 .. MaxRows, v \in vs}
    \cup {[form |-> "table", data |-> m] : m \in Matrices(vs)}
    \cup {[form |-> "cube", data |-> <<<<MaxVal>>>>]}

Frames(vs) == {[form |-> "frame", data |-> m] : m \in Matrices(vs)}

Transpose(m) == [j \in 1 .. Cols(m) |-> [i \in 1 .. Rows(m) |-> m[i][j]]]

-----------------------------------------------------------------------------
(* LinearRegression: the plumbing every class shares.                      *)

\* simplify_array, nested in _simplify: a 1-D array becomes one column
simplify_array(v) ==
    IF v.form \in {"flat", "scalar"}
    THEN [error |-> "", df |-> Transpose(v.data), fresh |-> TRUE]
    ELSE IF v.form = "table"
    THEN [error |-> "", df |-> v.data, fresh |-> TRUE]
    ELSE [error |-> "ValueError", df |-> <<>>, fresh |-> TRUE]

\* _simplify handing a DataFrame back as the caller's own object
_simplify_no_copy(v) ==
    IF v.form = "frame"
    THEN [error |-> "", df |-> v.data, fresh |-> FALSE]
    ELSE simplify_array(v)

\* _simplify: the DataFrame it returns is always a new object (astype copies),
\* `fresh` says so
_simplify(v) ==
    IF v.form = "frame"
    THEN [error |-> "", df |-> v.data, fresh |-> TRUE]
    ELSE simplify_array(v)

\* a design-matrix entry: <<transform, base, value>>
Num(v) == <<"id", "", v>>

\* _add_intercept: x.insert(0, "INTERCEPT", 1), in place on the frame given
_add_intercept(df) == [i \in 1 .. Rows(df) |-> <<Num(1)>> \o df[i]]

\* a raw frame as a design matrix (the identity transform)
AsDesign(df) == [i \in 1 .. Rows(df) |-> [j \in 1 .. Cols(df) |-> Num(df[i][j])]]

NoBetas == [index |-> <<>>, ncols |-> 0, val |-> <<>>]
NoAxis == [vertex |-> <<>>, betas |-> NoBetas, x |-> <<>>, y |-> <<>>]

\* the instance before __init__ has assigned anything
Blank ==
    [error |-> "", attrs |-> {}, steps |-> <<>>, fit_intercept |-> FALSE,
     n |-> 0, base |-> "", x |-> <<>>, y |-> <<>>, betas |-> NoBetas,
     axis_major |-> NoAxis, axis_minor |-> NoAxis]

Fail(self, e) == [self EXCEPT !.error = e]
Step(self, name) == [self EXCEPT !.steps = Append(@, name)]

\* _set_inputs without its assertion on the numbers of rows
Linear_set_inputs_no_assert(self, yin, xin, fi) ==
    LET s0 == [Step(self, "_set_inputs") EXCEPT
                  !.fit_intercept = fi, !.attrs = @ \cup {"fit_intercept"}]
        fy == _simplify(yin)
        fx == _simplify(xin)
    IN  IF fy.error # "" THEN Fail(s0, fy.error)
        ELSE IF fx.error # "" THEN Fail([s0 EXCEPT !.y = fy.df, !.attrs = @ \cup {"y"}], fx.error)
        ELSE [s0 EXCEPT !.y = fy.df, !.x = fx.df, !.attrs = @ \cup {"x", "y"}]

\* LinearRegression._set_inputs
Linear_set_inputs(self, yin, xin, fi) ==
    LET s0 == [Step(self, "_set_inputs") EXCEPT
                  !.fit_intercept = fi, !.attrs = @ \cup {"fit_intercept"}]
        fy == _simplify(yin)
        fx == _simplify(xin)
    IN  IF fy.error # "" THEN Fail(s0, fy.error)
        ELSE LET s1 == [s0 EXCEPT !.y = fy.df, !.attrs = @ \cup {"y"}]
             IN  IF fx.error # "" THEN Fail(s1, fx.error)
                 ELSE LET s2 == [s1 EXCEPT !.x = fx.df, !.attrs = @ \cup {"x"}]
                      IN  IF Rows(s2.x) = Rows(s2.y) THEN s2
                          ELSE Fail(s2, "AssertionError")

\* the test of positivity written with >= in place of >
AllNonNegative(m) == \A i \in 1 .. Rows(m) : \A j \in 1 .. Cols(m) : m[i][j] >= 0

AllPositive(m) == \A i \in 1 .. Rows(m) : \A j \in 1 .. Cols(m) : m[i][j] > 0

\* the two assertions that end PowerRegression._set_inputs
positive_only(s) ==
    IF s.error # "" THEN s
    ELSE IF ~AllPositive(s.y) THEN Fail(s, "AssertionError")
    ELSE IF ~AllPositive(s.x) THEN Fail(s, "AssertionError")
    ELSE s

\* PowerRegression._set_inputs (HyperbolicRegression inherits it)
Power_set_inputs(self, yin, xin, fi) ==
    positive_only(Linear_set_inputs(self, yin, xin, fi))

\* (pinv(D.T @ D) @ D.T) @ Y: one coefficient row per column of D, one
\* column per column of Y.  The value numpy computes is kept by name.
LeastSquares(D, Y, first) ==
    [index |-> [i \in 1 .. Cols(D) |-> i - 1 + first],
     ncols |-> Cols(Y),
     val   |-> <<"lstsq", D, Y>>]

SetBetas(self, b) ==
    [self EXCEPT !.betas = b, !.attrs = @ \cup {"betas"}]

\* LinearRegression._calculate_betas
Linear_calculate_betas(self) ==
    LET s == Step(self, "_calculate_betas")
        D == IF s.fit_intercept THEN _add_intercept(AsDesign(s.x)) ELSE AsDesign(s.x)
    IN  SetBetas(s, LeastSquares(D, AsDesign(s.y), IF s.fit_intercept THEN 0 ELSE 1))

\* v.values @ self.betas: the product needs one column of v per row of betas
MatMul(V, b) ==
    IF Cols(V) # Len(b.index)
    THEN [error |-> "ValueError", shape |-> <<0, 0>>, val |-> <<>>]
    ELSE [error |-> "", shape |-> <<Rows(V), b.ncols>>, val |-> <<"matmul", V, b.val>>]

\* what a __call__ returns or raises (r), with the caller's argument as the
\* call leaves it (a)
Returned(r, a) == [error |-> r.error, shape |-> r.shape, val |-> r.val, arg |-> a]

\* LinearRegression.__call__ once _simplify returned s
predict(self, q, s) ==
    IF s.error # "" THEN Returned([error |-> s.error, shape |-> <<0, 0>>, val |-> <<>>], q)
    ELSE IF ~self.fit_intercept THEN Returned(MatMul(AsDesign(s.df), self.betas), q)
    ELSE Returned(MatMul(_add_intercept(AsDesign(s.df)), self.betas),
                  IF s.fresh THEN q
                  ELSE [q EXCEPT !.data = [i \in 1 .. Rows(s.df) |-> <<1>> \o s.df[i]]])

\* LinearRegression.__call__.  _add_intercept works in place on the frame
\* _simplify returned: the insertion reaches the caller's object only if that
\* frame is the caller's own.
Linear_call(self, q) == predict(self, q, _simplify(q))

-----------------------------------------------------------------------------
(* PolynomialRegression                                                    *)

RECURSIVE Pow(_, _)
Pow(v, k) == IF k = 0 THEN 1 ELSE v * Pow(v, k - 1)

\* _expand_to_n: the features to the power 1, then to the power 2, ... n
RECURSIVE ExpandRow(_, _, _)
ExpandRow(row, k, order) ==
    IF k > order THEN <<>>
    ELSE [j \in 1 .. Len(row) |-> Num(Pow(row[j], k))] \o ExpandRow(row, k + 1, order)

_expand_to_n(df, order) == [i \in 1 .. Rows(df) |-> ExpandRow(df[i], 1, order)]

\* PolynomialRegression._calculate_betas
Polynomial_calculate_betas(self) ==
    LET s == Step(self, "_calculate_betas")
        e == _expand_to_n(s.x, s.n)
        D == IF s.fit_intercept THEN _add_intercept(e) ELSE e
    IN  SetBetas(s, LeastSquares(D, AsDesign(s.y), IF s.fit_intercept THEN 0 ELSE 1))

\* PolynomialRegression.__call__
Polynomial_call(self, q) ==
    LET s == _simplify(q)
        e == _expand_to_n(s.df, self.n)
        v == IF self.fit_intercept THEN _add_intercept(e) ELSE e
    IN  IF s.error # "" THEN [error |-> s.error, shape |-> <<0, 0>>, val |-> <<>>]
        ELSE MatMul(v, self.betas)

-----------------------------------------------------------------------------
(* PowerRegression                                                         *)

\* a function applied to every entry: log, 1 / x, base ** x
Map(df, f, b) == [i \in 1 .. Rows(df) |-> [j \in 1 .. Cols(df) |-> <<f, b, df[i][j]>>]]

\* PowerRegression._calculate_betas: the fit in log space, then row 0 is
\* replaced by e ** row 0
Power_calculate_betas(self) ==
    LET s == Step(self, "_calculate_betas")
        D == _add_intercept(Map(s.x, "log", ""))
        b == LeastSquares(D, Map(s.y, "log", ""), 0)
    IN  SetBetas(s, [b EXCEPT !.val = <<"exp_row0", @>>])

\* PowerRegression.__call__: o = beta0, then o *= v ** beta_i for every
\* coefficient row i >= 1.  v ** beta_i broadcasts the columns of v against
\* the columns of betas, and the in-place product must keep the shape of o.
Power_call(self, q) ==
    LET s == _simplify(q)
        k == Cols(s.df)
        d == self.betas.ncols
        p == Len(self.betas.index)
    IN  IF s.error # "" THEN [error |-> s.error, shape |-> <<0, 0>>, val |-> <<>>]
        ELSE IF p > 1 /\ k # d /\ k # 1
        THEN [error |-> "ValueError", shape |-> <<0, 0>>, val |-> <<>>]
        ELSE [error |-> "", shape |-> <<Rows(s.df), d>>,
              val |-> [r \in 1 .. Rows(s.df) |-> [j \in 1 .. d |->
                        <<<<"beta", 0, j>>>> \o
                        [i \in 1 .. p - 1 |->
                            <<"pow", s.df[r][IF k = 1 THEN 1 ELSE j], i, j>>]]]]

-----------------------------------------------------------------------------
(* HyperbolicRegression                                                    *)

\* HyperbolicRegression._calculate_betas
Hyperbolic_calculate_betas(self) ==
    LET s == Step(self, "_calculate_betas")
        D == _add_intercept(Map(s.x, "inv", ""))
    IN  SetBetas(s, LeastSquares(D, AsDesign(s.y), 0))

\* __call__ multiplying the raw values, not their reciprocals, by the betas
Hyperbolic_call_raw(self, q) ==
    LET s == _simplify(q)
    IN  IF s.error # "" THEN [error |-> s.error, shape |-> <<0, 0>>, val |-> <<>>]
        ELSE MatMul(_add_intercept(AsDesign(s.df)), self.betas)

\* HyperbolicRegression.__call__
Hyperbolic_call(self, q) ==
    LET s == _simplify(q)
    IN  IF s.error # "" THEN [error |-> s.error, shape |-> <<0, 0>>, val |-> <<>>]
        ELSE MatMul(_add_intercept(Map(s.df, "inv", "")), self.betas)

-----------------------------------------------------------------------------
(* ExponentialRegression                                                   *)

\* ExponentialRegression._calculate_betas
Exponential_calculate_betas(self) ==
    LET s == Step(self, "_calculate_betas")
        D == _add_intercept(Map(s.x, "exp", s.base))
    IN  SetBetas(s, LeastSquares(D, AsDesign(s.y), 0))

\* ExponentialRegression.__call__
Exponential_call(self, q) ==
    LET s == _simplify(q)
    IN  IF s.error # "" THEN [error |-> s.error, shape |-> <<0, 0>>, val |-> <<>>]
        ELSE MatMul(_add_intercept(Map(s.df, "exp", self.base)), self.betas)

-----------------------------------------------------------------------------
(* _Axis: a LinearRegression through the two vertices of one axis.         *)

\* None, which astype(float) turns into nan
None == <<0, 0>>
IsNaN(p) == p[2] = 0

List(a, b) == [form |-> "flat", data |-> <<<<a, b>>>>]

\* the end of _Axis.__init__: the two-row assertions, then the vertices
axis_vertex(t) ==
    IF Rows(t.y) # 2 \/ Rows(t.x) # 2
    THEN [error |-> "AssertionError", axis |-> NoAxis]
    ELSE [error |-> "",
          axis |-> [vertex |-> <<<<t.x[1][1], t.y[1][1]>>, <<t.x[2][1], t.y[2][1]>>>>,
                    betas |-> t.betas, x |-> t.x, y |-> t.y]]

HasNaN(s) == \E i \in 1 .. Rows(s.x) : IsNaN(s.x[i][1]) \/ IsNaN(s.y[i][1])

\* _Axis.__init__ with a pinv that returns for a matrix holding nan
axis_fit_through_nan(s) ==
    IF s.error # "" THEN [error |-> s.error, axis |-> NoAxis]
    ELSE axis_vertex(Linear_calculate_betas(s))

\* _Axis.__init__ once _set_inputs has returned s.  The vertices are nan when
\* the line misses the ellipse, and numpy's pinv reports a matrix holding nan
\* as LinAlgError (the SVD does not converge).
axis_fit(s) ==
    IF s.error # "" THEN [error |-> s.error, axis |-> NoAxis]
    ELSE IF HasNaN(s) THEN [error |-> "LinAlgError", axis |-> NoAxis]
    ELSE axis_vertex(Linear_calculate_betas(s))

\* _Axis.__init__
Axis_init(yin, xin) == axis_fit(Linear_set_inputs(Blank, yin, xin, TRUE))

\* _Axis.length
length(axis) ==
    LET a == axis.vertex[1]
        b == axis.vertex[2]
    IN  IF IsNaN(a[1]) \/ IsNaN(a[2]) \/ IsNaN(b[1]) \/ IsNaN(b[2]) THEN None
        ELSE RSqrt(RAdd(RSq(RSub(a[1], b[1])), RSq(RSub(a[2], b[2]))))

-----------------------------------------------------------------------------
(* EllipsisRegression                                                      *)

\* 4 * eigvec[0] * eigvec[2] - eigvec[1] ** 2 > 0, for one eigenvector
Con(v) == RLt(RZero, RSub(RMul(Q(4), RMul(v[1], v[3])), RSq(v[2])))

\* np.concatenate((eiv_pos, trc @ eiv_pos)).ravel(): row after row of a
\* matrix with one column per selected eigenvector
Ravel(sel) ==
    [i \in 1 .. 6 * Len(sel) |->
        sel[((i - 1) % Len(sel)) + 1][((i - 1) \div Len(sel)) + 1]]

\* EllipsisRegression.center; the denominator is not zero for an eigenvector
\* that passed Con
Ellipsis_center(coefs) ==
    LET a == coefs[1]
        b == coefs[2]
        c == coefs[3]
        d == coefs[4]
        e == coefs[5]
        den == RSub(RSq(b), RMul(Q(4), RMul(a, c)))
    IN  <<RDiv(RSub(RMul(Q(2), RMul(c, d)), RMul(b, e)), den),
          RDiv(RSub(RMul(Q(2), RMul(a, e)), RMul(b, d)), den)>>

\* the return statement of get_crossings
line_points(x0, x1, m, i) ==
    <<<<x0, RAdd(RMul(x0, m), i)>>, <<x1, RAdd(RMul(x1, m), i)>>>>

\* get_crossings from the discriminant d_ on
crossing_points(a_, b_, d_, m, i) ==
    IF RLt(d_, RZero) THEN <<<<None, None>>, <<None, None>>>>
    ELSE IF a_ = RZero THEN <<<<None, None>>, <<None, None>>>>
    ELSE line_points(RSub(RDiv(RNeg(b_), RMul(Q(2), a_)), RDiv(RSqrt(d_), RMul(Q(2), a_))),
                     RAdd(RDiv(RNeg(b_), RMul(Q(2), a_)), RDiv(RSqrt(d_), RMul(Q(2), a_))),
                     m, i)

\* get_crossings from the quadratic a_ x^2 + b_ x + c_ on
crossing_roots(a_, b_, c_, m, i) ==
    crossing_points(a_, b_, RSub(RSq(b_), RMul(Q(4), RMul(a_, c_))), m, i)

\* EllipsisRegression.get_crossings
get_crossings(coefs, m, i) ==
    crossing_roots(
        RAdd(coefs[1], RAdd(RMul(coefs[2], m), RMul(coefs[3], RSq(m)))),
        RAdd(RAdd(RMul(coefs[2], i), RMul(Q(2), RMul(m, RMul(i, coefs[3])))),
             RAdd(coefs[4], RMul(coefs[5], m))),
        RAdd(RMul(coefs[3], RSq(i)), RAdd(RMul(coefs[5], i), coefs[6])),
        m, i)

\* _calculate_betas storing the axes in the order it built them
store_axes_unsorted(s, ax0, ax1) ==
    IF ax0.error # "" THEN Fail(s, ax0.error)
    ELSE IF ax1.error # "" THEN Fail(s, ax1.error)
    ELSE [s EXCEPT !.axis_major = ax0.axis, !.axis_minor = ax1.axis,
                   !.attrs = @ \cup {"axis_major", "axis_minor"}]

\* _calculate_betas from "sort the axes" on
sort_axes(s, ax0, ax1) ==
    IF ax0.error # "" THEN Fail(s, ax0.error)
    ELSE IF ax1.error # "" THEN Fail(s, ax1.error)
    ELSE IF RLt(length(ax0.axis), length(ax1.axis))
    THEN [s EXCEPT !.axis_major = ax1.axis, !.axis_minor = ax0.axis,
                   !.attrs = @ \cup {"axis_major", "axis_minor"}]
    ELSE [s EXCEPT !.axis_major = ax0.axis, !.axis_minor = ax1.axis,
                   !.attrs = @ \cup {"axis_major", "axis_minor"}]

\* _calculate_betas from "generate the two axes" on: p0, p1 are the crossings
make_axes(s, p0, p1) ==
    sort_axes(s,
              Axis_init(List(p0[1][2], p0[2][2]), List(p0[1][1], p0[2][1])),
              Axis_init(List(p1[1][2], p1[2][2]), List(p1[1][1], p1[2][1])))

\* _calculate_betas from the centre on: the two lines through it
axes_through(s, m0, m1, ctr) ==
    make_axes(s,
              get_crossings(s.betas.val, m0, RSub(ctr[2], RMul(ctr[1], m0))),
              get_crossings(s.betas.val, m1, RSub(ctr[2], RMul(ctr[1], m1))))

\* _calculate_betas reading the centre from the first coefficients, however
\* many were stored
axes_of_slope_any_count(s, m0) ==
    IF m0 = RZero THEN Fail(s, "ValueError")
    ELSE axes_through(s, m0, RDiv(Q(-1), m0), Ellipsis_center(s.betas.val))

\* _calculate_betas from the slope m0 on; center unpacks five of six values
axes_of_slope(s, m0) ==
    IF m0 = RZero THEN Fail(s, "ValueError")
    ELSE IF Len(s.betas.val) # 6 THEN Fail(s, "ValueError")
    ELSE axes_through(s, m0, RDiv(Q(-1), m0), Ellipsis_center(s.betas.val))

\* m0 = (b - a) / c, then m0 = (m0 ** 2 + 1) ** 0.5 + m0
branch(t) == RAdd(RSqrt(RAdd(RSq(t), Q(1))), t)

\* the axes part of EllipsisRegression._calculate_betas (from "get the axes
\* angles" on), for the coefficients already stored: a, c, b are the first
\* three of them, in that order
EllipsisAxes(s) ==
    IF Len(s.betas.val) < 3 THEN Fail(s, "ValueError")
    ELSE IF s.betas.val[2] = RZero THEN Fail(s, "ValueError")
    ELSE axes_of_slope(s, branch(RDiv(RSub(s.betas.val[3], s.betas.val[1]),
                                      s.betas.val[2])))

Size(df) == Rows(df) * Cols(df)

\* EllipsisRegression._calculate_betas.  `out` is what numpy.linalg computes
\* from the scatter matrices: an error (inv of a singular matrix), or the
\* three eigenvectors, each with its linear part trc @ eigenvector.
Ellipsis_calculate_betas(self, out) ==
    LET s == Step(self, "_calculate_betas")
        sel == SelectSeq(out.vecs, Con)
        coefs == Ravel(sel)
        s1 == SetBetas(s, [index |-> [i \in 1 .. Len(coefs) |-> i - 1],
                           ncols |-> 1, val |-> coefs])
    IN  IF Size(s.x) # Size(s.y) THEN Fail(s, "ValueError")
        ELSE IF out.error # "" THEN Fail(s, out.error)
        ELSE EllipsisAxes(s1)

\* the return statement of _solve: i + j, i - j
solve_roots(i, j) == [error |-> "", roots |-> <<RAdd(i, j), RSub(i, j)>>]

\* _solve rejecting d <= 0 in place of d < 0
solve_from_positive(a, b, d) ==
    IF RLe(d, RZero) THEN [error |-> "ValueError", roots |-> <<>>]
    ELSE solve_roots(RMul(RNeg(b), RDiv(Q(1), RMul(Q(2), a))),
                     RMul(RDiv(Q(1), RMul(Q(2), a)), RSqrt(d)))

\* _solve from the discriminant d on
solve_from(a, b, d) ==
    IF RLt(d, RZero) THEN [error |-> "ValueError", roots |-> <<>>]
    ELSE solve_roots(RMul(RNeg(b), RDiv(Q(1), RMul(Q(2), a))),
                     RMul(RDiv(Q(1), RMul(Q(2), a)), RSqrt(d)))

\* EllipsisRegression._solve.  No caller in the class passes a = 0 for a
\* fitted ellipse; the model's 1 / 0 is nan.
_solve(a, b, c) == solve_from(a, b, RSub(RSq(b), RMul(Q(4), RMul(a, c))))

\* EllipsisRegression._get_roots: axis is "x" (x given) or "y" (y given)
Ellipsis_get_roots(self, axis, v) ==
    LET co == self.betas.val
    IN  IF axis = "y"
        THEN _solve(co[1], RAdd(RMul(co[2], v), co[4]),
                    RAdd(co[6], RAdd(RMul(co[3], RSq(v)), RMul(co[5], v))))
        ELSE _solve(co[3], RAdd(RMul(co[2], v), co[5]),
                    RAdd(co[6], RAdd(RMul(co[1], RSq(v)), RMul(co[4], v))))

\* an argument left at its default, None
Absent == [form |-> "none", data |-> <<>>]
Given(q) == q.form # "none"

\* EllipsisRegression.area, as the factor of pi
Ellipsis_area(self) == RMul(length(self.axis_major), length(self.axis_minor))

ecc(a, b) ==
    IF a = RZero THEN [error |-> "ValueError", value |-> None]
    ELSE [error |-> "", value |-> RSqrt(RSub(Q(1), RDiv(RSq(b), RSq(a))))]

\* EllipsisRegression.eccentricity
eccentricity(self) ==
    ecc(RDiv(length(self.axis_major), Q(2)), RDiv(length(self.axis_minor), Q(2)))

\* x0, x1 = np.sort(self._solve(a, b, c))
sort_roots(r) ==
    IF r.error # "" THEN [error |-> r.error, value |-> <<>>]
    ELSE [error |-> "", value |-> <<RMin(r.roots[1], r.roots[2]), RMax(r.roots[1], r.roots[2])>>]

\* EllipsisRegression.domain
Ellipsis_domain(self) ==
    sort_roots(_solve(
        RSub(RSq(self.betas.val[2]), RMul(Q(4), RMul(self.betas.val[1], self.betas.val[3]))),
        RSub(RMul(Q(2), RMul(self.betas.val[2], self.betas.val[5])),
             RMul(Q(4), RMul(self.betas.val[3], self.betas.val[4]))),
        RSub(RSq(self.betas.val[5]), RMul(Q(4), RMul(self.betas.val[3], self.betas.val[6])))))

\* EllipsisRegression.codomain
Ellipsis_codomain(self) ==
    sort_roots(_solve(
        RSub(RSq(self.betas.val[2]), RMul(Q(4), RMul(self.betas.val[1], self.betas.val[3]))),
        RSub(RMul(Q(2), RMul(self.betas.val[2], self.betas.val[4])),
             RMul(Q(4), RMul(self.betas.val[1], self.betas.val[5]))),
        RSub(RSq(self.betas.val[4]), RMul(Q(4), RMul(self.betas.val[1], self.betas.val[6])))))

-----------------------------------------------------------------------------
(* CircleRegression                                                        *)

\* CircleRegression._calculate_betas.  `out` is the coefficient triple that
\* pinv(a.T @ a) @ a.T @ b evaluates to.
Circle_calculate_betas(self, out) ==
    LET s == Step(self, "_calculate_betas")
    IN  IF Size(s.x) # Size(s.y) THEN Fail(s, "ValueError")
        ELSE SetBetas(s, [index |-> <<0, 1, 2>>, ncols |-> 1, val |-> out])

\* CircleRegression.center
Circle_center(self) ==
    <<RDiv(self.betas.val[1], Q(2)), RDiv(self.betas.val[2], Q(2))>>

\* CircleRegression.radius
radius(self) ==
    LET a == self.betas.val[1]
        b == self.betas.val[2]
        c == self.betas.val[3]
    IN  RDiv(RSqrt(RAdd(RMul(Q(4), c), RAdd(RSq(a), RSq(b)))), Q(2))

\* the return statement of CircleRegression._get_roots
circle_roots(a, b, d) ==
    IF RLt(d, RZero) THEN [error |-> "ValueError", roots |-> <<>>]
    ELSE IF a = RZero THEN [error |-> "ValueError", roots |-> <<>>]
    ELSE [error |-> "",
          roots |-> <<RDiv(RSub(RNeg(b), RSqrt(d)), RMul(Q(2), a)),
                      RDiv(RAdd(RNeg(b), RSqrt(d)), RMul(Q(2), a))>>]

circle_quadratic(a, b, c) == circle_roots(a, b, RSub(RSq(b), RMul(Q(4), RMul(a, c))))

\* _get_roots for the centre (x0, y0) and the radius r
circle_get_roots(x0, y0, r, axis, v) ==
    IF axis = "y"
    THEN circle_quadratic(Q(1), RMul(Q(-2), x0),
                          RAdd(RSub(RSq(x0), RSq(r)), RSq(RSub(v, y0))))
    ELSE circle_quadratic(Q(1), RMul(Q(-2), y0),
                          RAdd(RSub(RSq(y0), RSq(r)), RSq(RSub(v, x0))))

\* CircleRegression._get_roots
Circle_get_roots(self, axis, v) ==
    circle_get_roots(Circle_center(self)[1], Circle_center(self)[2], radius(self), axis, v)

\* CircleRegression.area, as the factor of pi
Circle_area(self) == RSq(radius(self))

\* CircleRegression.perimeter, as the factor of pi
Circle_perimeter(self) == RMul(Q(2), radius(self))

interval(c, r) == <<RSub(c, r), RAdd(c, r)>>

\* CircleRegression.domain
Circle_domain(self) == interval(Circle_center(self)[1], radius(self))

\* CircleRegression.codomain
Circle_codomain(self) == interval(Circle_center(self)[2], radius(self))

-----------------------------------------------------------------------------
(* The __call__ and is_inside of the two conic classes, whose bodies are   *)
(* the same but for the _get_roots they reach.                             *)

\* the _get_roots of a conic class
get_roots(cls, self, axis, v) ==
    IF cls = "Ellipsis" THEN Ellipsis_get_roots(self, axis, v)
    ELSE Circle_get_roots(self, axis, v)

NoRoots == [error |-> "", cols |-> <<>>, rows |-> <<>>]

First(bad) == CHOOSE i \in bad : \A k \in bad : i <= k

\* the end of __call__: the first row that raised ends the call
gather(axis, rs, bad) ==
    IF bad # {} THEN [NoRoots EXCEPT !.error = rs[First(bad)].error]
    ELSE [error |-> "",
          cols  |-> IF axis = "x" THEN <<"Y0", "Y1">> ELSE <<"X0", "X1">>,
          rows  |-> [i \in 1 .. Len(rs) |-> rs[i].roots]]

each_row(axis, rs) == gather(axis, rs, {i \in 1 .. Len(rs) : rs[i].error # ""})

\* __call__ once _simplify returned s: _get_roots on every row, where
\* float(x) of a row of several columns is a TypeError
conic_rows(cls, self, axis, s) ==
    IF s.error # "" THEN [NoRoots EXCEPT !.error = s.error]
    ELSE each_row(axis,
                  [i \in 1 .. Rows(s.df) |->
                     IF Cols(s.df) # 1 THEN [error |-> "TypeError", roots |-> <<>>]
                     ELSE get_roots(cls, self, axis, s.df[i][1])])

\* EllipsisRegression.__call__ and CircleRegression.__call__
conic_call(cls, self, qx, qy) ==
    IF ~(Given(qx) \/ Given(qy)) THEN [NoRoots EXCEPT !.error = "AssertionError"]
    ELSE IF ~(~Given(qx) \/ ~Given(qy)) THEN [NoRoots EXCEPT !.error = "AssertionError"]
    ELSE IF Given(qx) THEN conic_rows(cls, self, "x", _simplify(qx))
    ELSE conic_rows(cls, self, "y", _simplify(qy))

Scalar(v) == [form |-> "scalar", data |-> <<<<v>>>>]

\* the test of is_inside with both bounds inclusive
between_closed(y0, y1, py) == RLe(RMin(y0, y1), py) /\ RLe(py, RMax(y0, y1))

between(y0, y1, py) == RLt(RMin(y0, y1), py) /\ RLe(py, RMax(y0, y1))

\* the last line of is_inside, on what self(x=x) returned
InsideTest(r, py) ==
    IF r.error # "" THEN [error |-> r.error, value |-> FALSE]
    ELSE [error |-> "", value |-> between(r.rows[1][1], r.rows[1][2], py)]

\* EllipsisRegression.is_inside and CircleRegression.is_inside
is_inside(cls, self, px, py) == InsideTest(conic_call(cls, self, Scalar(px), Absent), py)

-----------------------------------------------------------------------------
(* The constructors.  `out` stands for what numpy.linalg returns to the    *)
(* conic classes; the other classes do not read it.                        *)

Kinds == {"Linear", "Polynomial", "Power", "Hyperbolic", "Exponential",
          "Ellipsis", "Circle"}
ConicKinds == {"Ellipsis", "Circle"}

\* the resolution with HyperbolicRegression taking LinearRegression's
\* _set_inputs
set_inputs_of_power_only(cls, self, yin, xin, fi) ==
    IF cls = "Power" THEN Power_set_inputs(self, yin, xin, fi)
    ELSE Linear_set_inputs(self, yin, xin, fi)

\* the _set_inputs a class resolves to
set_inputs(cls, self, yin, xin, fi) ==
    IF cls \in {"Power", "Hyperbolic"} THEN Power_set_inputs(self, yin, xin, fi)
    ELSE Linear_set_inputs(self, yin, xin, fi)

\* the _calculate_betas a class resolves to
calculate_betas(cls, self, out) ==
    CASE cls = "Linear"      -> Linear_calculate_betas(self)
      [] cls = "Polynomial"  -> Polynomial_calculate_betas(self)
      [] cls = "Power"       -> Power_calculate_betas(self)
      [] cls = "Hyperbolic"  -> Hyperbolic_calculate_betas(self)
      [] cls = "Exponential" -> Exponential_calculate_betas(self)
      [] cls = "Ellipsis"    -> Ellipsis_calculate_betas(self, out)
      [] cls = "Circle"      -> Circle_calculate_betas(self, out)

\* LinearRegression.__init__ once _set_inputs returned s.  The coefficients
\* modelled are real, so the final test for complex values never raises.
fit(cls, s, out) == IF s.error # "" THEN s ELSE calculate_betas(cls, s, out)

\* LinearRegression.__init__, run for class cls
Linear_init(cls, self, yin, xin, fi, out) ==
    fit(cls, set_inputs(cls, self, yin, xin, fi), out)

\* PolynomialRegression.__init__
Polynomial_init(self, yin, xin, order, fi) ==
    IF ~(order > 0) THEN Fail(self, "AssertionError")
    ELSE Linear_init("Polynomial",
                     [self EXCEPT !.n = order, !.attrs = @ \cup {"n"}],
                     yin, xin, fi, <<>>)

\* PowerRegression.__init__ (HyperbolicRegression.__init__ only calls it)
Power_init(cls, self, yin, xin) == Linear_init(cls, self, yin, xin, TRUE, <<>>)

\* ExponentialRegression.__init__
Exponential_init(self, yin, xin, b) ==
    Linear_init("Exponential",
                [self EXCEPT !.base = b, !.attrs = @ \cup {"base"}],
                yin, xin, TRUE, <<>>)

\* the two assertions that end the conic constructors
unidimensional(s) ==
    IF s.error # "" THEN s
    ELSE IF Cols(s.x) # 1 THEN Fail(s, "AssertionError")
    ELSE IF Cols(s.y) # 1 THEN Fail(s, "AssertionError")
    ELSE s

\* EllipsisRegression.__init__ and CircleRegression.__init__
Conic_init(cls, self, yin, xin, out) ==
    unidimensional(Linear_init(cls, self, yin, xin, TRUE, out))

-----------------------------------------------------------------------------
(* What numpy.linalg can return to the conic fits.                         *)

Conic(t) == [i \in 1 .. 6 |-> Q(t[i])]

\* semi-axes 2 and 1, major axis of slope 4/3, centre (0, 0)
E1 == Conic(<<73, -72, 52, 0, 0, -100>>)
\* the same ellipse, eigenvector of the opposite sign
E1neg == Conic(<<-73, 72, -52, 0, 0, 100>>)
\* semi-axes 1 and 2: the axis of slope 4/3 is the minor one
E2 == Conic(<<52, 72, 73, 0, 0, -100>>)
\* E1 moved to the centre (1, 2)
E3 == Conic(<<73, -72, 52, -2, -136, 37>>)
\* semi-axes 2 and 1 at 45 degrees: the vertices are irrational
E45 == Conic(<<5, -6, 5, 0, 0, -8>>)
\* x^2/4 + y^2 = 1: no xy term
EA == Conic(<<1, 0, 4, 0, 0, -4>>)
\* x^2 + xy + y^2 + 1 = 0: passes Con, has no real point
EI == Conic(<<1, 1, 1, 0, 0, 1>>)
\* two conics that fail Con
H1 == Conic(<<1, 0, -1, 0, 0, -1>>)
H2 == Conic(<<0, 1, 0, 0, 0, -1>>)

Eig(vecs) == [error |-> "", vecs |-> vecs]

\* one eigenvector passes Con; none does; two do; inv raises.  The two that
\* pass give 73, -72, 52, 74, 32, -47 as the first six of twelve coefficients.
EigOutcomes ==
    {Eig(<<e, H1, H2>>) : e \in {E1, E1neg, E2, E3, E45, EA, EI}}
    \cup {Eig(<<H1, E1, H2>>), Eig(<<H1, H2, H1>>),
          Eig(<<Conic(<<73, 52, 32, 0, 0, 0>>), H1, Conic(<<-72, 74, -47, 0, 0, 0>>)>>)}
    \cup {[error |-> "LinAlgError", vecs |-> <<>>]}

\* x^2 + y^2 = a x + b y + c
\* centre (1, 2), radius 3; centre (0, 0), radius 5; centre (0, 0), radius 0
Circles == {<<Q(2), Q(4), Q(4)>>, <<Q(0), Q(0), Q(25)>>, <<Q(0), Q(0), Q(0)>>}

-----------------------------------------------------------------------------
(* The state machine.                                                      *)

NoQuery == [sent |-> <<>>, held |-> <<>>]

Bases == {"e", "2"}

InputData == Data(Vals)
ShapeData == Data({MaxVal})

Args(cls) ==
    IF cls \in ConicKinds
    THEN [y : ShapeData, x : ShapeData, fit_intercept : {TRUE}, n : {0}, base : {""}]
    ELSE [y : InputData, x : InputData,
          fit_intercept : IF cls \in {"Linear", "Polynomial"} THEN BOOLEAN ELSE {TRUE},
          n : IF cls = "Polynomial" THEN 0 .. MaxOrder ELSE {0},
          base : IF cls = "Exponential" THEN Bases ELSE {""}]

Init ==
    /\ kind \in Kinds
    /\ args \in Args(kind)
    /\ status = "new"
    /\ error = ""
    /\ attrs = {}
    /\ steps = <<>>
    /\ fit_intercept = FALSE
    /\ n = 0
    /\ base = ""
    /\ x = <<>>
    /\ y = <<>>
    /\ betas = NoBetas
    /\ axis_major = NoAxis
    /\ axis_minor = NoAxis
    /\ op = ""
    /\ query = NoQuery
    /\ result = <<>>
    /\ raised = ""

\* the instance as the variables hold it
Self ==
    [error |-> error, attrs |-> attrs, steps |-> steps,
     fit_intercept |-> fit_intercept, n |-> n, base |-> base, x |-> x, y |-> y,
     betas |-> betas, axis_major |-> axis_major, axis_minor |-> axis_minor]

\* the constructor has returned s, or raised s.error
Constructed(s) ==
    /\ status' = IF s.error = "" THEN "ready" ELSE "failed"
    /\ error' = s.error
    /\ attrs' = s.attrs
    /\ steps' = s.steps
    /\ fit_intercept' = s.fit_intercept
    /\ n' = s.n
    /\ base' = s.base
    /\ x' = s.x
    /\ y' = s.y
    /\ betas' = s.betas
    /\ axis_major' = s.axis_major
    /\ axis_minor' = s.axis_minor
    /\ UNCHANGED <<kind, args, op, query, result, raised>>

NewLinear ==
    /\ status = "new" /\ kind = "Linear"
    /\ Constructed(Linear_init("Linear", Blank, args.y, args.x, args.fit_intercept, <<>>))

NewPolynomial ==
    /\ status = "new" /\ kind = "Polynomial"
    /\ Constructed(Polynomial_init(Blank, args.y, args.x, args.n, args.fit_intercept))

NewPower ==
    /\ status = "new" /\ kind = "Power"
    /\ Constructed(Power_init("Power", Blank, args.y, args.x))

NewHyperbolic ==
    /\ status = "new" /\ kind = "Hyperbolic"
    /\ Constructed(Power_init("Hyperbolic", Blank, args.y, args.x))

NewExponential ==
    /\ status = "new" /\ kind = "Exponential"
    /\ Constructed(Exponential_init(Blank, args.y, args.x, args.base))

NewEllipsis ==
    /\ status = "new" /\ kind = "Ellipsis"
    /\ \E out \in EigOutcomes :
          Constructed(Conic_init("Ellipsis", Blank, args.y, args.x, out))

NewCircle ==
    /\ status = "new" /\ kind = "Circle"
    /\ \E out \in Circles :
          Constructed(Conic_init("Circle", Blank, args.y, args.x, out))

\* the __call__ a regression class resolves to; only LinearRegression.__call__
\* works in place on what _simplify returned
call(cls, self, q) ==
    CASE cls = "Linear"      -> Linear_call(self, q)
      [] cls = "Polynomial"  -> Returned(Polynomial_call(self, q), q)
      [] cls = "Power"       -> Returned(Power_call(self, q), q)
      [] cls = "Hyperbolic"  -> Returned(Hyperbolic_call(self, q), q)
      [] cls = "Exponential" -> Returned(Exponential_call(self, q), q)

Frame(df) == [form |-> "frame", data |-> df]

\* the sample data hold integers; the conic queries compute on rationals
Rational(df) == [i \in 1 .. Rows(df) |-> [j \in 1 .. Cols(df) |-> Q(df[i][j])]]

\* the squared correlation of y and z, kept by name; xs is self.x as the call
\* z = self(self.x) leaves it
correlation(self, z, values, xs) ==
    [error |-> z.error, value |-> <<"corr", self.y, values>>, x |-> xs]

\* LinearRegression.r_squared, which every class inherits
r_squared(cls, self) ==
    IF cls \in ConicKinds
    THEN (LET z == conic_call(cls, self, Frame(Rational(self.x)), Absent)
          IN  correlation(self, z, z.rows, self.x))
    ELSE (LET z == call(cls, self, Frame(self.x))
          IN  correlation(self, z, z.val, z.arg.data))

QueryData == Data({MaxVal}) \cup Frames({MaxVal})

MaxCoord == 5
Coords == {Q(i) : i \in -1 .. MaxCoord} \cup {<<6, 5>>, <<8, 5>>, <<4, 65>>}

\* the rows of a batch: a coordinate inside every shape, or the largest one
Batch(len) == [1 .. len -> {Q(0), Q(MaxCoord)}]
ConicData ==
    {Scalar(c) : c \in Coords}
    \cup {[form |-> "flat", data |-> <<b>>] : b \in UNION {Batch(l) : l \in 1 .. MaxBatch}}
    \cup {[form |-> "table", data |-> <<<<Q(0), Q(1)>>>>], [form |-> "cube", data |-> <<<<Q(0)>>>>]}

ConicQueries ==
    {<<q, Absent>> : q \in ConicData}
    \cup {<<Absent, q>> : q \in ConicData}
    \cup {<<Absent, Absent>>}
    \cup {<<Scalar(c), Scalar(c)>> : c \in {Q(0), Q(1)}}

\* a query named `name` was made with the arguments `sent`, which the caller
\* holds as `held` afterwards; it returned r or raised e
Asked(name, sent, held, r, e) ==
    /\ op' = name
    /\ query' = [sent |-> sent, held |-> held]
    /\ result' = r
    /\ raised' = e
    /\ UNCHANGED <<kind, args, status, error, attrs, steps, fit_intercept, n, base,
                   y, betas, axis_major, axis_minor>>

\* a query that leaves self.x alone returned r.value or raised r.error
Answered(name, q, r) ==
    /\ Asked(name, q, q, r.value, r.error)
    /\ x' = x

Predicted(q, r) ==
    /\ Asked("__call__", q, r.arg, [shape |-> r.shape, val |-> r.val], r.error)
    /\ x' = x

\* model(x) on a regression model
Predict ==
    /\ status = "ready" /\ op = "" /\ kind \notin ConicKinds
    /\ \E q \in QueryData : Predicted(q, call(kind, Self, q))

Solved(q, r) ==
    /\ Asked("__call__", q, q, [cols |-> r.cols, rows |-> r.rows], r.error)
    /\ x' = x

\* model(x=...) or model(y=...) on a conic model
PredictConic ==
    /\ status = "ready" /\ op = "" /\ kind \in ConicKinds
    /\ \E q \in ConicQueries : Solved(q, conic_call(kind, Self, q[1], q[2]))

Correlated(r) ==
    /\ Asked("r_squared", <<>>, <<>>, r.value, r.error)
    /\ x' = r.x

\* model.r_squared
RSquared ==
    /\ status = "ready" /\ op = ""
    /\ Correlated(r_squared(kind, Self))

\* model.is_inside(x, y)
IsInside ==
    /\ status = "ready" /\ op = "" /\ kind \in ConicKinds
    /\ \E px \in Coords, py \in Coords :
          Answered("is_inside", <<px, py>>, is_inside(kind, Self, px, py))

\* model.area
Area ==
    /\ status = "ready" /\ op = "" /\ kind \in ConicKinds
    /\ Asked("area", <<>>, <<>>,
             IF kind = "Ellipsis" THEN Ellipsis_area(Self) ELSE Circle_area(Self), "")
    /\ x' = x

\* model.center
Center ==
    /\ status = "ready" /\ op = "" /\ kind \in ConicKinds
    /\ Asked("center", <<>>, <<>>,
             IF kind = "Ellipsis" THEN Ellipsis_center(betas.val) ELSE Circle_center(Self), "")
    /\ x' = x

\* the domain and codomain of a conic class
range(cls, self, name) ==
    IF cls = "Ellipsis"
    THEN (IF name = "domain" THEN Ellipsis_domain(self) ELSE Ellipsis_codomain(self))
    ELSE [error |-> "",
          value |-> IF name = "domain" THEN Circle_domain(self) ELSE Circle_codomain(self)]

\* model.domain and model.codomain
Domain ==
    /\ status = "ready" /\ op = "" /\ kind \in ConicKinds
    /\ \E name \in {"domain", "codomain"} : Answered(name, <<>>, range(kind, Self, name))

\* the scalar properties of the conic classes
measure(self, name) ==
    CASE name = "radius" -> [error |-> "", value |-> radius(self)]
      [] name = "perimeter" -> [error |-> "", value |-> Circle_perimeter(self)]
      [] name = "eccentricity" -> eccentricity(self)
      [] name = "axis_major.length" -> [error |-> "", value |-> length(self.axis_major)]
      [] name = "axis_minor.length" -> [error |-> "", value |-> length(self.axis_minor)]

\* circle.radius and circle.perimeter, ellipse.eccentricity and the lengths
\* of ellipse.axis_major and ellipse.axis_minor
Measure ==
    /\ status = "ready" /\ op = "" /\ kind \in ConicKinds
    /\ \E name \in IF kind = "Circle" THEN {"radius", "perimeter"}
                   ELSE {"eccentricity", "axis_major.length", "axis_minor.length"} :
          Answered(name, <<>>, measure(Self, name))

\* the caller is done with what the last query returned (or raised) and
\* with the arguments it passed
Drop ==
    /\ status = "ready" /\ op # ""
    /\ op' = ""
    /\ query' = NoQuery
    /\ result' = <<>>
    /\ raised' = ""
    /\ UNCHANGED <<kind, args, status, error, attrs, steps, fit_intercept, n, base,
                   x, y, betas, axis_major, axis_minor>>

Next ==
    \/ NewLinear
    \/ NewPolynomial
    \/ NewPower
    \/ NewHyperbolic
    \/ NewExponential
    \/ NewEllipsis
    \/ NewCircle
    \/ Predict
    \/ PredictConic
    \/ RSquared
    \/ IsInside
    \/ Area
    \/ Center
    \/ Domain
    \/ Measure
    \/ Drop

Spec == Init /\ [][Next]_vars

-----------------------------------------------------------------------------
(* _solve on its own: the method reads nothing of the instance, so it is   *)
(* applied to coefficients drawn from the integers up to MaxCoef.  a = 0   *)
(* is left out: no caller passes it, and (2 * a) ** (-1) is then an error  *)
(* or inf as the type of a decides.                                        *)

MaxCoef == 3
InitSolve ==
    /\ kind = "Ellipsis"
    /\ args = <<>>
    /\ status = "ready"
    /\ error = ""
    /\ attrs = {}
    /\ steps = <<>>
    /\ fit_intercept = TRUE
    /\ n = 0
    /\ base = ""
    /\ x = <<>>
    /\ y = <<>>
    /\ betas = NoBetas
    /\ axis_major = NoAxis
    /\ axis_minor = NoAxis
    /\ op = ""
    /\ query \in {[sent |-> <<a, b, c>>, held |-> <<a, b, c>>] :
                     a \in {Q(i) : i \in -MaxCoef .. MaxCoef} \ {RZero},
                     b \in {Q(i) : i \in -MaxCoef .. MaxCoef},
                     c \in {Q(i) : i \in -MaxCoef .. MaxCoef}}
    /\ result = <<>>
    /\ raised = ""

Solved3(r) ==
    /\ op' = "_solve"
    /\ result' = r.roots
    /\ raised' = r.error
    /\ UNCHANGED <<kind, args, status, error, attrs, steps, fit_intercept, n, base,
                   x, y, betas, axis_major, axis_minor, query>>

\* self._solve(a, b, c)
Solve ==
    /\ op = ""
    /\ Solved3(_solve(query.sent[1], query.sent[2], query.sent[3]))

NextSolve == Solve

SpecSolve == InitSolve /\ [][NextSolve]_vars

-----------------------------------------------------------------------------
(* EllipsisRegression.perimeter, one step of its loop at a time.  The      *)
(* floats of the loop are exact fractions <<sign, numerator, denominator>>  *)
(* of long naturals: a long natural is the sequence of its digits in base   *)
(* 1000, lowest first, without leading zeros (zero is <<>>).                *)

MaxAxis == 4

\* arithmetic on long naturals: "carry" turns the sequence a of naturals,
\* with b carried in, into digits; "add", "mul" and "less" take two long
\* naturals; "pow" takes a long natural and a natural exponent.  The
\* arguments are evaluated once, as u and v.
RECURSIVE Long(_, _, _)
Long(f, a, b) ==
    CHOOSE r \in
        {CASE f = "carry" ->
                IF v = 0 /\ \A i \in 1 .. Len(u) : u[i] = 0 THEN <<>>
                ELSE IF u = <<>> THEN <<v % 1000>> \o Long("carry", <<>>, v \div 1000)
                ELSE <<(u[1] + v) % 1000>>
                         \o Long("carry", Tail(u), (u[1] + v) \div 1000)
           [] f = "add" ->
                Long("carry",
                     [k \in 1 .. (IF Len(u) < Len(v) THEN Len(v) ELSE Len(u)) |->
                         (IF k <= Len(u) THEN u[k] ELSE 0)
                             + (IF k <= Len(v) THEN v[k] ELSE 0)],
                     0)
           [] f = "mul" ->
                Long("carry",
                     [k \in 1 .. Len(u) + Len(v) |->
                         BagCardinality(
                             [i \in {j \in 1 .. Len(u) :
                                        /\ k - j + 1 \in 1 .. Len(v)
                                        /\ u[j] * v[k - j + 1] > 0} |->
                                 u[i] * v[k - i + 1]])],
                     0)
           [] f = "pow" ->
                IF v = 0 THEN <<1>>
                ELSE IF v % 2 = 1 THEN Long("mul", u, Long("pow", u, v - 1))
                ELSE Long("pow", Long("mul", u, u), v \div 2)
           [] f = "less" ->
                \/ Len(u) < Len(v)
                \/ /\ Len(u) = Len(v)
                   /\ \E k \in 1 .. Len(u) :
                         /\ u[k] < v[k]
                         /\ \A i \in k + 1 .. Len(u) : u[i] = v[i]
         : u \in {a}, v \in {b}} : TRUE

\* the while statement testing n <= 1 in place of n == 0
continues_twice(r) == r.n <= 1

\* the test of the while statement on the locals r:
\* n == 0 or abs(p_old - p) > 1e-12, where 1e-12 is 1 / 1000^4.  The
\* difference is taken over the denominator of p when that is 4 * h[2] times
\* the denominator of p_old, and over the product of the two otherwise.
continues(r) ==
    \/ r.n = 0
    \/ LET tol == <<0, 0, 0, 0, 1>>
           d == Long("carry", <<4 * r.h[2]>>, 0)
           same == Long("mul", r.p_old[3], d) = r.p[3]
           A == Long("mul", Long("mul", r.p_old[2], IF same THEN d ELSE r.p[3]), tol)
           B == Long("mul", Long("mul", r.p[2], IF same THEN <<1>> ELSE r.p_old[3]), tol)
           D == IF same THEN r.p[3] ELSE Long("mul", r.p_old[3], r.p[3])
       IN  IF r.p_old[1] # r.p[1] THEN Long("less", D, Long("add", A, B))
           ELSE \/ Long("less", Long("add", B, D), A)
                \/ Long("less", Long("add", A, D), B)

\* an ellipse already constructed, of semi-axes a >= b, its axes along the
\* coordinate axes
InitPerimeter ==
    /\ kind = "Ellipsis"
    /\ args = <<>>
    /\ status = "ready"
    /\ error = ""
    /\ attrs = {"axis_major", "axis_minor"}
    /\ steps = <<>>
    /\ fit_intercept = TRUE
    /\ n = 0
    /\ base = ""
    /\ x = <<>>
    /\ y = <<>>
    /\ betas = NoBetas
    /\ \E a \in 0 .. MaxAxis : \E b \in 0 .. a :
          /\ axis_major = [NoAxis EXCEPT !.vertex = <<<<Q(-a), Q(0)>>, <<Q(a), Q(0)>>>>]
          /\ axis_minor = [NoAxis EXCEPT !.vertex = <<<<Q(0), Q(-b)>>, <<Q(0), Q(b)>>>>]
    /\ op = ""
    /\ query = NoQuery
    /\ result = <<>>
    /\ raised = ""

\* perimeter up to the while statement; np.pi is 3.141592653589793
PerimeterEnter ==
    /\ op = ""
    /\ op' = "perimeter"
    /\ LET a == RDiv(length(axis_major), Q(2))
           b == RDiv(length(axis_minor), Q(2))
           h == RDiv(RSq(RSub(a, b)), RAdd(RSq(a), RSq(b)))
           c == <<1,
                  Long("mul", <<793, 589, 653, 592, 141, 3>>,
                       Long("carry", <<RAdd(a, b)[1]>>, 0)),
                  Long("mul", <<0, 0, 0, 0, 0, 1>>,
                       Long("carry", <<RAdd(a, b)[2]>>, 0))>>
       IN  IF a = RZero /\ b = RZero
           THEN raised' = "ValueError" /\ result' = <<>>
           ELSE /\ raised' = ""
                /\ result' = [at |-> "while", h |-> h, c |-> c,
                              p_old |-> <<-1, c[2], c[3]>>, p |-> c,
                              n |-> 0, q |-> <<1, <<1>>, <<1>>>>]
    /\ UNCHANGED <<kind, args, status, error, attrs, steps, fit_intercept, n, base,
                   x, y, betas, axis_major, axis_minor, query>>

\* one pass through the body of the while statement.  q + tn / td is taken
\* over the denominator td when td is 4 * h[2] times the denominator of q.
PerimeterLoop ==
    /\ op = "perimeter" /\ raised = "" /\ result.at = "while"
    /\ continues(result)
    /\ LET k == result.n + 1
           tn == Long("pow", Long("carry", <<result.h[1]>>, 0), k)
           td == Long("mul", Long("pow", Long("carry", <<result.h[2]>>, 0), k),
                      Long("pow", <<4>>, k))
           d == Long("carry", <<4 * result.h[2]>>, 0)
           q == IF Long("mul", result.q[3], d) = td
                THEN <<1, Long("add", Long("mul", result.q[2], d), tn), td>>
                ELSE <<1,
                       Long("add", Long("mul", result.q[2], td),
                            Long("mul", tn, result.q[3])),
                       Long("mul", result.q[3], td)>>
       IN  result' = [result EXCEPT !.p_old = result.p, !.n = k, !.q = q,
                                    !.p = <<1, Long("mul", result.c[2], q[2]),
                                            Long("mul", result.c[3], q[3])>>]
    /\ UNCHANGED <<kind, args, status, error, attrs, steps, fit_intercept, n, base,
                   x, y, betas, axis_major, axis_minor, op, query, raised>>

\* the while statement ends: return float(p)
PerimeterReturn ==
    /\ op = "perimeter" /\ raised = "" /\ result.at = "while"
    /\ ~continues(result)
    /\ result' = [result EXCEPT !.at = "return"]
    /\ UNCHANGED <<kind, args, status, error, attrs, steps, fit_intercept, n, base,
                   x, y, betas, axis_major, axis_minor, op, query, raised>>

NextPerimeter == PerimeterEnter \/ PerimeterLoop \/ PerimeterReturn

\* whether perimeter is read is up to the caller; once it is, its loop runs
\* on the caller's thread: a step of it that can be taken is taken
SpecPerimeter ==
    /\ InitPerimeter /\ [][NextPerimeter]_vars
    /\ WF_vars(PerimeterLoop) /\ WF_vars(PerimeterReturn)

-----------------------------------------------------------------------------
(* The properties checked.                                                 *)

\* the number of rows of an argument: a scalar is one row, a 1-D value has
\* one row per element
InputRows(v) == IF v.form \in {"scalar", "flat"} THEN Len(v.data[1]) ELSE Len(v.data)

Ran(name) == \E i \in 1 .. Len(steps) : steps[i] = name

\* C1: for every class, a constructor called with x and y of different
\* numbers of rows raises, and it does so before _calculate_betas runs: no
\* betas are stored on the instance.
C1_RowMismatchFailsBeforeBetas ==
    (/\ status # "new"
     /\ args.x.form # "cube" /\ args.y.form # "cube"
     /\ InputRows(args.x) # InputRows(args.y))
    => (/\ status = "failed" /\ error # ""
        /\ ~Ran("_calculate_betas")
        /\ "betas" \notin attrs /\ betas = NoBetas)

\* an ellipse whose x and y differ in rows: _set_inputs ran and asserted
C1_Witness ==
    /\ kind = "Ellipsis" /\ status = "failed" /\ error = "AssertionError"
    /\ args.x.form # "cube" /\ args.y.form # "cube"
    /\ InputRows(args.x) # InputRows(args.y)
    /\ steps = <<"_set_inputs">>
    /\ {"x", "y"} \subseteq attrs

\* the rows of the one argument given to a conic __call__, when it is a
\* scalar or a 1-D value
OneColumn(q) == q.form \in {"scalar", "flat"}
GivenAxis == IF Given(query.sent[1]) THEN "x" ELSE "y"
GivenRows == IF Given(query.sent[1]) THEN query.sent[1].data[1] ELSE query.sent[2].data[1]
ExactlyOne ==
    /\ Given(query.sent[1]) # Given(query.sent[2])
    /\ OneColumn(IF Given(query.sent[1]) THEN query.sent[1] ELSE query.sent[2])
RowRoots(i) == get_roots(kind, Self, GivenAxis, GivenRows[i])

\* C2: in a batch call of a conic model, a row outside the shape (negative
\* discriminant) gives a pair of no-values for that row only: the call
\* returns, and every other row has its two roots.
C2_OutsideRowYieldsSentinel ==
    (op = "__call__" /\ kind \in ConicKinds /\ ExactlyOne)
    => (/\ raised = ""
        /\ Len(result.rows) = Len(GivenRows)
        /\ \A i \in 1 .. Len(GivenRows) :
              result.rows[i] = IF RowRoots(i).error # "" THEN <<None, None>>
                               ELSE RowRoots(i).roots)

\* a batch of two rows, the first inside the shape and the second outside:
\* the call raised
C2_Witness ==
    /\ op = "__call__" /\ kind \in ConicKinds /\ ExactlyOne
    /\ Len(GivenRows) = 2
    /\ RowRoots(1).error = "" /\ RowRoots(2).error = "ValueError"
    /\ raised = "ValueError"

\* C3: the conic __call__ takes exactly one of x and y: it raises with both,
\* it raises with neither, and with one it returns one pair per row, in the
\* columns Y0, Y1 when x is given and X0, X1 when y is given.
C3_ExactlyOneOfXAndY ==
    (op = "__call__" /\ kind \in ConicKinds)
    => (/\ (Given(query.sent[1]) /\ Given(query.sent[2])) => raised # ""
        /\ (~Given(query.sent[1]) /\ ~Given(query.sent[2])) => raised # ""
        /\ ExactlyOne =>
              (/\ raised = ""
               /\ Len(result.rows) = Len(GivenRows)
               /\ \A i \in 1 .. Len(result.rows) : Len(result.rows[i]) = 2
               /\ result.cols = IF GivenAxis = "x" THEN <<"Y0", "Y1">>
                                ELSE <<"X0", "X1">>))

\* only y given, one value, outside the shape: the call raised
C3_Witness ==
    /\ op = "__call__" /\ kind \in ConicKinds /\ ExactlyOne
    /\ GivenAxis = "y" /\ Len(GivenRows) = 1
    /\ raised = "ValueError"

\* the squared distance of the point tested from the centre of the circle
Dist2 ==
    RAdd(RSq(RSub(query.sent[1], Circle_center(Self)[1])),
         RSq(RSub(query.sent[2], Circle_center(Self)[2])))

\* C4: CircleRegression.is_inside(x, y) returns False, and does not raise,
\* for every point outside the circle, those with x outside the domain
\* [cx - r, cx + r] included; and it returns True for the centre.
C4_OutsideIsFalseCentreIsTrue ==
    (op = "is_inside" /\ kind = "Circle")
    => (/\ RLt(RSq(radius(Self)), Dist2) => (raised = "" /\ result = FALSE)
        /\ <<query.sent[1], query.sent[2]>> = Circle_center(Self)
              => (raised = "" /\ result = TRUE))

\* a point right of the domain of a circle of positive radius: is_inside raised
C4_Witness ==
    /\ op = "is_inside" /\ kind = "Circle"
    /\ RLt(RZero, radius(Self))
    /\ RLt(RAdd(Circle_center(Self)[1], radius(Self)), query.sent[1])
    /\ raised = "ValueError"

\* what model(x = px) returns for the x of the point tested
RootsAtX == conic_call(kind, Self, Scalar(query.sent[1]), Absent)

\* C5: where model(x = px) returns two real roots y0, y1, is_inside(px, py)
\* is true exactly when min(y0, y1) < py <= max(y0, y1): the upper boundary
\* is inside, the lower one is not, and no py is inside when y0 = y1.
C5_InsideIffBetweenRoots ==
    (op = "is_inside" /\ kind \in ConicKinds /\ RootsAtX.error = "")
    => (/\ raised = ""
        /\ result = (/\ RLt(RMin(RootsAtX.rows[1][1], RootsAtX.rows[1][2]), query.sent[2])
                     /\ RLe(query.sent[2], RMax(RootsAtX.rows[1][1], RootsAtX.rows[1][2]))))

\* the point tested is the upper of two distinct roots, and it is inside
C5_Witness ==
    /\ op = "is_inside" /\ kind \in ConicKinds /\ RootsAtX.error = ""
    /\ RootsAtX.rows[1][1] # RootsAtX.rows[1][2]
    /\ query.sent[2] = RMax(RootsAtX.rows[1][1], RootsAtX.rows[1][2])
    /\ raised = "" /\ result = TRUE

\* C6: every EllipsisRegression whose constructor returned has
\* axis_major.length >= axis_minor.length, whichever of the two lines (slope
\* m0, slope m1 = -1 / m0) is the longer.
C6_MajorNotShorterThanMinor ==
    (kind = "Ellipsis" /\ status = "ready")
    => RLe(length(axis_minor), length(axis_major))

\* the slope of an axis, from its two vertices
Slope(axis) ==
    RDiv(RSub(axis.vertex[2][2], axis.vertex[1][2]),
         RSub(axis.vertex[2][1], axis.vertex[1][1]))

\* an ellipse whose line of slope m0 = 4/3, built first, is the shorter one:
\* the axes were swapped
C6_Witness ==
    /\ kind = "Ellipsis" /\ status = "ready"
    /\ betas.val = E2
    /\ Slope(axis_minor) = <<4, 3>>
    /\ length(axis_minor) = Q(2) /\ length(axis_major) = Q(4)

\* b ** 2 - 4 * a * c for the integers _solve was called with
Discriminant ==
    query.sent[2][1] * query.sent[2][1] - 4 * query.sent[1][1] * query.sent[3][1]

NonPositive(v) == \E i \in 1 .. Len(v.data) : \E j \in 1 .. Len(v.data[i]) : v.data[i][j] <= 0

\* C8: a PowerRegression constructor called with a value of x or of y that
\* is not strictly positive raises, and it does so before the estimation in
\* log space (_calculate_betas) runs.
C8_PowerRejectsNonPositive ==
    (kind = "Power" /\ status # "new" /\ (NonPositive(args.x) \/ NonPositive(args.y)))
    => (/\ status = "failed" /\ error # ""
        /\ ~Ran("_calculate_betas")
        /\ betas = NoBetas)

\* y positive, x with a value <= 0, the same rows: the assertion on x ended
\* the constructor
C8_Witness ==
    /\ kind = "Power" /\ status = "failed" /\ error = "AssertionError"
    /\ args.x.form # "cube" /\ args.y.form # "cube"
    /\ InputRows(args.x) = InputRows(args.y)
    /\ ~NonPositive(args.y) /\ NonPositive(args.x)
    /\ steps = <<"_set_inputs">>

\* C9: once the constructor has returned, every call of the model, read of
\* r_squared, is_inside and read of a geometry property leaves betas, x, y
\* and the two axes as they were, and leaves the caller's query data as the
\* caller sent them.
C9_QueriesChangeNothing ==
    [][status = "ready"
         => (/\ betas' = betas /\ x' = x /\ y' = y
             /\ axis_major' = axis_major /\ axis_minor' = axis_minor
             /\ query'.held = query'.sent)]_vars

\* a DataFrame was passed to a linear model that inserts the intercept
C9_Witness ==
    /\ op = "__call__" /\ kind = "Linear" /\ fit_intercept
    /\ query.sent.form = "frame"
    /\ raised = "" /\ query.held = query.sent

\* C10: for an ellipse whose axis_major.length is 4 and axis_minor.length is
\* 2, area is 2 * pi (results are held as factors of pi).
C10_AreaOfSemiAxesTwoAndOne ==
    (/\ op = "area" /\ kind = "Ellipsis"
     /\ length(axis_major) = Q(4) /\ length(axis_minor) = Q(2))
    => result = Q(2)

\* the area read on such an ellipse is 8 * pi
C10_Witness ==
    /\ op = "area" /\ kind = "Ellipsis"
    /\ length(axis_major) = Q(4) /\ length(axis_minor) = Q(2)
    /\ result = Q(8)

\* C11: an EllipsisRegression whose fitted conic has no xy term (an ellipse
\* along the axes, as x^2/4 + y^2 = 1) is constructed, with
\* axis_major.length 4 and axis_minor.length 2 for that ellipse; the
\* ValueError of the axes computation is raised only when the coefficient
\* of y^2 is zero or m0 is zero.
C11_AxisAlignedEllipseIsBuilt ==
    (kind = "Ellipsis" /\ status # "new" /\ Len(betas.val) = 6)
    => (/\ betas.val[2] = RZero => status = "ready"
        /\ betas.val = EA
              => (/\ status = "ready"
                  /\ length(axis_major) = Q(4) /\ length(axis_minor) = Q(2))
        /\ (status = "failed" /\ error = "ValueError")
              => (\/ betas.val[3] = RZero
                  \/ branch(RDiv(RSub(betas.val[3], betas.val[1]), betas.val[2])) = RZero))

\* the fit gave x^2/4 + y^2 = 1 and the constructor raised ValueError, the
\* coefficients already stored
C11_Witness ==
    /\ kind = "Ellipsis" /\ status = "failed" /\ error = "ValueError"
    /\ betas.val = EA
    /\ "betas" \in attrs /\ "axis_major" \notin attrs

\* C12: every EllipsisRegression whose constructor returned holds exactly 6
\* coefficients: when no eigenvector, or more than one, satisfies
\* 4 * e0 * e2 - e1^2 > 0 (0, 12 or 18 coefficients stored), the
\* constructor raises.
C12_SixCoefficientsOrFailure ==
    (kind = "Ellipsis" /\ status # "new")
    => (/\ status = "ready" => (Len(betas.val) = 6 /\ Len(betas.index) = 6)
        /\ ("betas" \in attrs /\ Len(betas.val) # 6) => (status = "failed" /\ error # ""))

\* two eigenvectors passed the test: 12 coefficients were stored and the
\* constructor raised
C12_Witness ==
    /\ kind = "Ellipsis" /\ status = "failed" /\ error = "ValueError"
    /\ "betas" \in attrs /\ Len(betas.val) = 12

\* the slopes m0 (k = 0) and m1 = -1 / m0 (k = 1) that _calculate_betas
\* derives from the stored coefficients
StoredSlope(k) ==
    IF k = 0
    THEN branch(RDiv(RSub(betas.val[3], betas.val[1]), betas.val[2]))
    ELSE RDiv(Q(-1), branch(RDiv(RSub(betas.val[3], betas.val[1]), betas.val[2])))

\* what get_crossings returns for the axis line of slope StoredSlope(k)
StoredCrossings(k) ==
    get_crossings(betas.val, StoredSlope(k),
                  RSub(Ellipsis_center(betas.val)[2],
                       RMul(Ellipsis_center(betas.val)[1], StoredSlope(k))))

\* _calculate_betas reached get_crossings, and one of the two axis lines
\* got (None, None), (None, None)
AxisMissesConic ==
    /\ Len(betas.val) = 6 /\ betas.val[2] # RZero /\ StoredSlope(0) # RZero
    /\ \E k \in {0, 1} : StoredCrossings(k) = <<<<None, None>>, <<None, None>>>>

Defined(axis) ==
    /\ axis # NoAxis
    /\ \A i \in 1 .. 2 : \A j \in 1 .. 2 : ~IsNaN(axis.vertex[i][j])
    /\ ~IsNaN(length(axis))

\* C13: when an axis line has no real intersection with the fitted conic
\* (get_crossings returns the (None, None) pairs), the constructor of
\* EllipsisRegression raises; no ellipse with undefined axis vertices or
\* lengths is produced.
C13_MissedCrossingFailsConstruction ==
    (kind = "Ellipsis" /\ status # "new")
    => (/\ ("betas" \in attrs /\ AxisMissesConic)
              => (/\ status = "failed" /\ error # ""
                  /\ axis_major = NoAxis /\ axis_minor = NoAxis
                  /\ "axis_major" \notin attrs /\ "axis_minor" \notin attrs)
        /\ status = "ready" => (Defined(axis_major) /\ Defined(axis_minor)))

\* x^2 + xy + y^2 + 1 = 0 was fitted: its axis lines meet no real point and
\* the constructor raised
C13_Witness ==
    /\ kind = "Ellipsis" /\ status = "failed" /\ error = "LinAlgError"
    /\ "betas" \in attrs /\ betas.val = EI /\ AxisMissesConic
    /\ axis_major = NoAxis

\* the one argument given to a conic __call__
GivenQuery == IF Given(query.sent[1]) THEN query.sent[1] ELSE query.sent[2]

\* C14: validation precedes computation: a conic constructor given an x or
\* a y of more than one column raises before _calculate_betas starts, and
\* a conic __call__ given a query of more than one column raises its
\* AssertionError before any root is computed.
C14_ValidationPrecedesComputation ==
    /\ (/\ kind \in ConicKinds /\ status # "new" /\ {"x", "y"} \subseteq attrs
        /\ (Cols(x) # 1 \/ Cols(y) # 1))
       => (status = "failed" /\ ~Ran("_calculate_betas") /\ "betas" \notin attrs)
    /\ (/\ kind \in ConicKinds /\ op = "__call__"
        /\ Given(query.sent[1]) # Given(query.sent[2])
        /\ GivenQuery.form = "table" /\ Cols(GivenQuery.data) # 1)
       => raised = "AssertionError"

\* a conic constructor given two columns of x and of y raised its
\* AssertionError with the coefficients already estimated and stored
C14_Witness ==
    /\ kind \in ConicKinds /\ status = "failed" /\ error = "AssertionError"
    /\ Cols(x) # 1 /\ Cols(y) # 1
    /\ steps = <<"_set_inputs", "_calculate_betas">>
    /\ "betas" \in attrs

\* the semi-axes a and b that perimeter reads
SemiAxes == <<RDiv(length(axis_major), Q(2)), RDiv(length(axis_minor), Q(2))>>

\* the while statement was reached with the locals in result
InLoop == op = "perimeter" /\ raised = ""

\* perimeter returned float(p)
PerimeterReturned == InLoop /\ result.at = "return"

Simplified == _simplify(query.sent).df

\* a PowerRegression was asked to predict on as many features as it was
\* fitted on
PowerPredicts ==
    /\ kind = "Power" /\ op = "__call__"
    /\ _simplify(query.sent).error = ""
    /\ Cols(Simplified) = Cols(x)

\* C16: predict of a PowerRegression fitted on k features returns, for each
\* row, beta0 times the product over i = 1..k of x_i ^ beta_i, feature i
\* raised to its own exponent only; beta0 is the stored one, which
\* _calculate_betas passed through exp once.
C16_PowerPredictsProductOfOwnPowers ==
    PowerPredicts
    => (/\ raised = ""
        /\ betas.val[1] = "exp_row0"
        /\ result.shape = <<Rows(Simplified), betas.ncols>>
        /\ \A r \in 1 .. Rows(Simplified) : \A j \in 1 .. betas.ncols :
              result.val[r][j]
                  = <<<<"beta", 0, j>>>>
                    \o [i \in 1 .. Cols(x) |-> <<"pow", Simplified[r][i], i, j>>])

\* fitted on two features and two targets, predict on two features returned:
\* the first target's value holds feature 1 raised to beta_2
C16_Witness ==
    /\ PowerPredicts /\ Cols(x) = 2 /\ betas.ncols = 2
    /\ raised = ""
    /\ result.val[1][1][3] = <<"pow", Simplified[1][1], 2, 1>>

LinearKinds == {"Linear", "Polynomial", "Hyperbolic", "Exponential"}

\* a model of LinearKinds was asked to predict on a frame of as many
\* features as it was fitted on
LinearPredicts ==
    /\ kind \in LinearKinds /\ op = "__call__"
    /\ _simplify(query.sent).error = ""
    /\ Cols(Simplified) = Cols(x)

\* the columns one feature becomes, and the transform of each class
Arity == IF kind = "Polynomial" THEN n ELSE 1
Transform ==
    CASE kind \in {"Linear", "Polynomial"} -> <<"id", "">>
      [] kind = "Hyperbolic" -> <<"inv", "">>
      [] kind = "Exponential" -> <<"exp", base>>

\* C17: for Linear, Polynomial, Hyperbolic and Exponential models, predict
\* multiplies the betas by the design matrix that fit builds from the same
\* input: the matrix of a predict on the fitted x is the one the betas were
\* fitted on; its entries carry the transform of the class, it has one more
\* column (the constant, first) exactly when the fit had one, and as many
\* columns as there are rows of betas, arity * features (+ 1).
C17_PredictBuildsTheDesignOfFit ==
    LinearPredicts
    => (/\ raised = ""
        /\ result.val[1] = "matmul" /\ result.val[3] = betas.val
        /\ betas.val[1] = "lstsq"
        /\ Simplified = x => result.val[2] = betas.val[2]
        /\ Rows(result.val[2]) = Rows(Simplified)
        /\ Cols(result.val[2]) = Len(betas.index)
        /\ Cols(result.val[2]) = Cols(betas.val[2])
        /\ Cols(result.val[2])
              = Arity * Cols(x) + (IF fit_intercept THEN 1 ELSE 0)
        /\ \A r \in 1 .. Rows(Simplified) :
              /\ fit_intercept => result.val[2][r][1] = Num(1)
              /\ \A j \in 1 .. Arity * Cols(x) :
                    LET e == result.val[2][r][j + (IF fit_intercept THEN 1 ELSE 0)]
                    IN  <<e[1], e[2]>> = Transform)

\* a polynomial of order 2 with intercept, fitted on two features, predicts
\* on its own x: five columns
C17_Witness ==
    /\ LinearPredicts /\ kind = "Polynomial" /\ n = 2 /\ fit_intercept
    /\ Cols(x) = 2 /\ Simplified = x
    /\ raised = "" /\ Cols(result.val[2]) = 5

\* C18: HyperbolicRegression takes no logarithm, yet its constructor runs
\* PowerRegression._set_inputs: called with a value of x or of y that is
\* zero or negative it raises, before _calculate_betas builds the design
\* matrix of reciprocals; no betas are stored.
C18_HyperbolicRejectsNonPositive ==
    (kind = "Hyperbolic" /\ status # "new" /\ (NonPositive(args.x) \/ NonPositive(args.y)))
    => (/\ status = "failed" /\ error # ""
        /\ steps = <<"_set_inputs">>
        /\ "betas" \notin attrs /\ betas = NoBetas)

\* x positive, y with a value <= 0, the same rows: the assertion on y ended
\* the constructor of a HyperbolicRegression
C18_Witness ==
    /\ kind = "Hyperbolic" /\ status = "failed" /\ error = "AssertionError"
    /\ args.x.form # "cube" /\ args.y.form # "cube"
    /\ InputRows(args.x) = InputRows(args.y)
    /\ NonPositive(args.y) /\ ~NonPositive(args.x)
    /\ steps = <<"_set_inputs">> /\ {"x", "y"} \subseteq attrs

====
